---------------------------- MODULE Spec2Model ----------------------------
(***************************************************************************)
(* Model of fmdb/audio-features: audio_features/app.py.                    *)
(*                                                                         *)
(* AudioProcessor.process_audio_files discovers the audio files of an      *)
(* input path, runs one process_file job per file on a ThreadPoolExecutor, *)
(* each job resolving through the content-addressed cache or through       *)
(* extraction, and returns the successes sorted by file_number.            *)
(*                                                                         *)
(* Six specifications share the variables:                                 *)
(*   Spec          one call of main()/process_audio_files, all             *)
(*                 interleavings of the pool's workers;                    *)
(*   SpecFair      a batch of at least one job under fair scheduling;      *)
(*   SpecRuns      successive runs on one file with a persistent cache;    *)
(*   SpecHash      calculate_sha256 on files of bounded-choice length;     *)
(*   SpecDiscover  discovery alone, over every listing;                    *)
(*   SpecMfcc      audio_mfcc/app.py: process_audio_files and its pool.    *)
(***************************************************************************)
EXTENDS Integers, Sequences, FiniteSets, TLC

VARIABLES
    \* ---- the environment of a run
    input_kind,     \* "missing" | "file" | "dir": what input_path names
    listing,        \* the set of entries input_path holds (a file: itself)
    caller,         \* "main" (the typer command) | "api" (a direct call)
    use_cache,      \* AudioProcessor.use_cache
    verbose,        \* the verbose option
    output,         \* TRUE iff an output file is given
    cpu_count,      \* os.cpu_count(); 0 stands for None
    BUILD_ID,       \* the module constant read from the environment
    cache_dir,      \* digest -> content of <digest>.pickle
    \* ---- process_audio_files
    mainpc,         \* position of the calling thread
    files,          \* the job list: sequence of <<path, file_number>>
    max_workers,
    jobpc,          \* job index -> position of its process_file call
    jobres,         \* job index -> the local `result` of process_file
    jobexc,         \* job index -> str(e) of the exception it caught
    served,         \* job index -> "none" | "hit" | "miss": check_cache's answer
    stored,         \* job index -> "none" | "skipped" | "unreadable" | "ok" |
                    \*   "open_failed" | "partial": how save_to_cache ended
    results,        \* the successes list
    errors,         \* the failures list
    results_lock,   \* 0 = free, else the job index holding it
    raised,         \* the exception that left process_audio_files, or "none"
    exit_code,      \* exit code of main(): -1 while running
    \* ---- history (observers, no effect on the program)
    run,            \* number of the current run, from 1
    extract_calls,  \* entry -> times librosa.load was invoked, all runs
    hash_calls,     \* number of calculate_sha256 calls of this run
    completion,     \* job indices in the order their successes were appended
    first_build,    \* BUILD_ID of run 1
    first_cache,    \* cache_dir at the start of run 1
    first_stored,   \* paths whose run-1 result save_to_cache wrote
    \* ---- calculate_sha256 in isolation
    hfile,          \* <<f1, f2>>: the two files hashed
    hdigest,        \* <<d1, d2>>: their digests, NoDigest before the call
    \* ---- audio_mfcc/app.py: process_audio_files
    mfcc_mainpc,    \* position of the calling thread
    mfcc_files,     \* the list of paths
    mfcc_workers,   \* max_workers of its pool
    mfcc_pc,        \* job index -> position of its process_and_save call
    mfcc_lock,      \* job index -> the Lock object its call created:
                    \*   "none" (not created) | "held" | "released"
    mfcc_out,       \* the output file: job indices in the order written
    mfcc_results    \* the results list: job indices in the order collected

envVars   == <<input_kind, listing, caller, use_cache, verbose, output,
               cpu_count, BUILD_ID, cache_dir>>
runVars   == <<mainpc, files, max_workers, jobpc, jobres, jobexc, served,
               stored, results, errors, results_lock, raised, exit_code>>
histVars  == <<run, extract_calls, hash_calls, completion, first_build,
               first_cache, first_stored>>
hashVars  == <<hfile, hdigest>>
mfccVars  == <<mfcc_mainpc, mfcc_files, mfcc_workers, mfcc_pc, mfcc_lock,
               mfcc_out, mfcc_results>>
vars      == <<envVars, runVars, histVars, hashVars, mfccVars>>

-----------------------------------------------------------------------------
(* Bounds of the model.                                                    *)

\* most entries a listed directory holds
MaxFiles == 2
\* largest os.cpu_count() tried
MaxCpu == 1
\* runs of SpecRuns
MaxRuns == 2
\* byte patterns tried per file length in SpecHash
MaxSeed == 3

-----------------------------------------------------------------------------
(* hashlib.sha256 and calculate_sha256.                                    *)
(*                                                                         *)
(* A file's bytes are given by a descriptor [len, seed]: byte i is         *)
(* ByteAt(c, i).  sha256 is modelled as a streaming hash: a chaining value *)
(* updated byte by byte and a byte count, the count entering the digest as *)
(* SHA-256's length padding does.                                          *)

\* f.read(4096)
ChunkSize == 4096
\* modulus and initial chaining value of the model hash
HashMod == 65521
HashIV == 7

ByteAt(c, i) == (c.seed * i + (i \div 7) + c.seed) % 256

Bytes(c) == [i \in 1..c.len |-> ByteAt(c, i)]

Min(a, b) == IF a < b THEN a ELSE b

\* hashlib.sha256()
sha256_new == [h |-> HashIV, n |-> 0]

RECURSIVE UpdateRange(_, _, _, _)
UpdateRange(st, block, lo, hi) ==
    IF lo > hi THEN st
    ELSE IF lo = hi
         THEN [h |-> (st.h * 31 + block[lo] + 1) % HashMod, n |-> st.n + 1]
         ELSE LET mid  == (lo + hi) \div 2
                  left == UpdateRange(st, block, lo, mid)
              IN  \* the test only fixes the order of evaluation: left half first
                  IF left.n >= 0 THEN UpdateRange(left, block, mid + 1, hi) ELSE left

\* sha256_hash.update(byte_block)
sha256_update(st, block) == UpdateRange(st, block, 1, Len(block))

\* sha256_hash.hexdigest()
hexdigest(st) == (st.h * 31 + st.n) % HashMod

\* f.read(size) at offset pos of a file holding `bytes`
read(bytes, pos, size) == SubSeq(bytes, pos + 1, Min(pos + size, Len(bytes)))

\* for byte_block in iter(lambda: f.read(4096), b""): update(byte_block)
\* with the sentinel dropped one chunk early: a short block ends the loop unhashed
RECURSIVE ReadLoopShort(_, _, _)
ReadLoopShort(bytes, pos, st) ==
    LET byte_block == read(bytes, pos, ChunkSize)
    IN  IF Len(byte_block) < ChunkSize THEN st
        ELSE ReadLoopShort(bytes, pos + Len(byte_block), sha256_update(st, byte_block))

\* for byte_block in iter(lambda: f.read(4096), b""): update(byte_block)
RECURSIVE ReadLoop(_, _, _)
ReadLoop(bytes, pos, st) ==
    LET byte_block == read(bytes, pos, ChunkSize)
    IN  IF byte_block = <<>> THEN st
        ELSE ReadLoop(bytes, pos + Len(byte_block), sha256_update(st, byte_block))

calculate_sha256_short(c) == hexdigest(ReadLoopShort(Bytes(c), 0, sha256_new))

\* AudioProcessor.calculate_sha256 on a readable file of content c
calculate_sha256(c) == hexdigest(ReadLoop(Bytes(c), 0, sha256_new))

\* hashlib.sha256(data).hexdigest(): the whole content hashed in one piece
expected_hash(c) == hexdigest(sha256_update(sha256_new, Bytes(c)))

\* AudioProcessor.get_cache_path: cache_dir / f"{file_hash}.pickle"
get_cache_path(audio_path, file_hash) == file_hash


-----------------------------------------------------------------------------
(* Paths, directory listings and discovery (process_audio_files, 269-274). *)

\* contents of the files of the model's directory
ContentA == [len |-> 1, seed |-> 1]
ContentB == [len |-> 2, seed |-> 1]

\* The entries an input directory may hold.  A path is the entry's name:
\* stem and extension, the extension spelled as on disk.  a.mp3 and b.FLAC
\* are byte-identical.
Entries ==
    { [stem |-> 1, ext |-> "flac", content |-> ContentB],
      [stem |-> 1, ext |-> "mp3",  content |-> ContentA],
      [stem |-> 2, ext |-> "FLAC", content |-> ContentA],
      [stem |-> 3, ext |-> "txt",  content |-> ContentB] }

\* str.lower() on the extensions of the model
lower(ext) ==
    CASE ext = "FLAC" -> "flac"
      [] ext = "MP3"  -> "mp3"
      [] OTHER        -> ext

\* rank of an extension in Python's string order (upper case sorts first)
ExtRank(ext) ==
    CASE ext = "FLAC" -> 1
      [] ext = "MP3"  -> 2
      [] ext = "flac" -> 3
      [] ext = "mp3"  -> 4
      [] OTHER        -> 5

\* Path.__lt__ for two entries of one directory: their names compared
PathLess(p, q) ==
    \/ p.stem < q.stem
    \/ p.stem = q.stem /\ ExtRank(p.ext) < ExtRank(q.ext)

\* f.suffix in ['.mp3', '.flac'], the lower() forgotten
SuffixSupportedCaseSensitive(f) == f.ext \in {"mp3", "flac"}

\* f.suffix.lower() in ['.mp3', '.flac']
SuffixSupported(f) == lower(f.ext) \in {"mp3", "flac"}

\* sorted(paths)
RECURSIVE sorted(_)
sorted(S) ==
    IF S = {} THEN <<>>
    ELSE LET least == CHOOSE p \in S : \A q \in S \ {p} : PathLess(p, q)
         IN  <<least>> \o sorted(S \ {least})

\* [(f, i+1) for i, f in enumerate(...)]
Enumerate(seq) == [i \in 1..Len(seq) |-> <<seq[i], i>>]

\* the else branch of line 269: the job list of a directory
DirectoryJobs(dir) == Enumerate(sorted({f \in dir : SuffixSupported(f)}))

\* line 269-270: files = [(input_path, 1)]
SingleFileJobs(f) == <<<<f, 1>>>>

\* os.cpu_count() or 4
DefaultWorkers == 4
CpuCountOrDefault(n) == IF n = 0 THEN DefaultWorkers ELSE n

\* line 274: max_workers = min(os.cpu_count() or 4, len(files))
MaxWorkersOf(n, jobs) == Min(CpuCountOrDefault(n), Len(jobs))


-----------------------------------------------------------------------------
(* Result dictionaries and the cache directory.                            *)
(*                                                                         *)
(* A Python dict with the keys the program reads is a record; a missing    *)
(* key is "absent" (strings) or the empty sequence (nested values).        *)

BuildIds == {"b1", "b2"}

Name(f) == [stem |-> f.stem, ext |-> f.ext]

EmptyDict == [build_id |-> "absent", metadata |-> <<>>, features |-> <<>>,
              error |-> "absent"]

\* extract_metadata's dict (64-71); the tag fields play no part in the flow
Metadata(f, file_number, build) ==
    [filename |-> Name(f), file_number |-> file_number,
     sha256 |-> calculate_sha256(f.content), build_id |-> build]

\* the features librosa computes: a function of the samples only
Features(f) == <<f.content.len, f.content.seed>>

\* lines 202-210: result = {"metadata": metadata, "features": {...}}
SuccessDict(metadata, features) ==
    [build_id |-> "absent", metadata |-> <<metadata>>,
     features |-> <<features>>, error |-> "absent"]

\* line 220: {"metadata": metadata, "error": str(e)}
ErrorDict(metadata, msg) ==
    [build_id |-> "absent", metadata |-> <<metadata>>, features |-> <<>>,
     error |-> msg]

\* <digest>.pickle: missing, unreadable, or a pickled dict
NoFile      == [kind |-> "nofile",  data |-> EmptyDict]
Corrupt     == [kind |-> "corrupt", data |-> EmptyDict]
\* pickle.dump of the metadata alone
PickleMetadataOnly(d) == [kind |-> "pickle", data |-> [d EXCEPT !.features = <<>>]]
\* save_to_cache lines 133-134: pickle.dump(result, f)
Pickle(d)   == [kind |-> "pickle",  data |-> d]

Digests == {calculate_sha256(f.content) : f \in Entries}

\* a file of the model with the given digest (the one of least name)
OwnerOf(d) ==
    CHOOSE f \in Entries :
        /\ calculate_sha256(f.content) = d
        /\ \A g \in Entries : calculate_sha256(g.content) = d /\ g # f
                                 => PathLess(f, g)

\* What <digest>.pickle may hold before the first run: nothing, garbage, an
\* entry carrying a top-level build id (written by any other writer of the
\* directory), or an entry as save_to_cache writes it.
InitialCacheFiles(d) ==
    {NoFile, Corrupt}
    \cup { Pickle([build_id |-> b,
                   metadata |-> <<Metadata(OwnerOf(d), 9, b)>>,
                   features |-> <<Features(OwnerOf(d))>>,
                   error |-> "absent"]) : b \in BuildIds }
    \cup { Pickle(SuccessDict(Metadata(OwnerOf(d), 9, b), Features(OwnerOf(d))))
             : b \in BuildIds }

EmptyCache == [d \in Digests |-> NoFile]

\* initial cache directories: empty, or one file, under the digest that
\* a.mp3 and b.FLAC share
InitialCaches ==
    LET d == calculate_sha256(ContentA)
    IN  { [EmptyCache EXCEPT ![d] = e] : e \in InitialCacheFiles(d) }

\* check_cache line 116, the comparison inverted
BuildIdDiffers(cached_data, build) == cached_data.build_id # build

\* check_cache line 116: cached_data.get('build_id') == BUILD_ID
BuildIdMatches(cached_data, build) == cached_data.build_id = build

\* check_cache answering with a dict of the current build id whatever the
\* file holds
LookupUnguarded(file, build) ==
    IF file.kind = "pickle" /\ BuildIdMatches(file.data, build)
    THEN file.data
    ELSE [EmptyDict EXCEPT !.build_id = build]

\* check_cache lines 112-122 on the file at cache_path: the dict returned,
\* EmptyDict standing for None
Lookup(file, build) ==
    IF file.kind = "pickle" /\ BuildIdMatches(file.data, build)
    THEN file.data
    ELSE EmptyDict

\* results.sort(key=...), left out
NoSort(seq) == seq

\* results.sort(key=lambda x: x['metadata']['file_number']): a stable
\* insertion sort
RECURSIVE SortByFileNumber(_)
SortByFileNumber(seq) ==
    IF seq = <<>> THEN <<>>
    ELSE LET rest == SortByFileNumber(Tail(seq))
             x    == Head(seq)
             k    == x.metadata[1].file_number
             \* x goes before the first element of greater key
             pos  == Cardinality({i \in 1..Len(rest) :
                          rest[i].metadata[1].file_number < k})
         IN  SubSeq(rest, 1, pos) \o <<x>> \o SubSeq(rest, pos + 1, Len(rest))


-----------------------------------------------------------------------------
(* The initial states.                                                     *)

\* the value of hdigest before the call: no digest reaches HashMod
NoDigest == HashMod

IdleRun ==
    /\ mainpc = "start"
    /\ files = <<>>
    /\ max_workers = 0
    /\ jobpc = <<>>
    /\ jobres = <<>>
    /\ jobexc = <<>>
    /\ served = <<>>
    /\ stored = <<>>
    /\ results = <<>>
    /\ errors = <<>>
    /\ results_lock = 0
    /\ raised = "none"
    /\ exit_code = -1

IdleHash ==
    /\ hfile = <<>>
    /\ hdigest = <<>>

IdleMfcc ==
    /\ mfcc_mainpc = "start"
    /\ mfcc_files = <<>>
    /\ mfcc_workers = 0
    /\ mfcc_pc = <<>>
    /\ mfcc_lock = <<>>
    /\ mfcc_out = <<>>
    /\ mfcc_results = <<>>

\* main()'s input_path is declared exists=True, so a missing path reaches
\* process_audio_files only through a direct call.
Init ==
    /\ input_kind \in {"missing", "file", "dir"}
    /\ listing \in
         CASE input_kind = "missing" -> {{}}
           [] input_kind = "file"    -> {{f} : f \in Entries}
           [] input_kind = "dir"     ->
                {S \in SUBSET Entries : Cardinality(S) <= MaxFiles}
    /\ caller = IF input_kind = "missing" THEN "api" ELSE "main"
    /\ use_cache \in BOOLEAN
    /\ verbose \in BOOLEAN
    /\ output \in BOOLEAN
    /\ cpu_count \in 0..MaxCpu
    /\ BUILD_ID = "b1"
    /\ cache_dir \in InitialCaches
    /\ IdleRun
    /\ run = 1
    /\ extract_calls = [f \in Entries |-> 0]
    /\ hash_calls = 0
    /\ completion = <<>>
    /\ first_build = BUILD_ID
    /\ first_cache = cache_dir
    /\ first_stored = {}
    /\ IdleHash
    /\ IdleMfcc

-----------------------------------------------------------------------------
(* process_audio_files: the calling thread.                                *)

Jobs == 1..Len(files)

\* lines 234-243 without the existence check of line 237
CheckInputUnchecked ==
    /\ mainpc = "start"
    /\ raised' = raised
    /\ mainpc' = "discover"
    /\ UNCHANGED <<files, max_workers, jobpc, jobres, jobexc, served, stored, results,
                   errors, results_lock, exit_code>>
    /\ UNCHANGED <<envVars, histVars, hashVars, mfccVars>>

\* lines 234-243: the existence check, then the lock and the two lists
CheckInput ==
    /\ mainpc = "start"
    /\ IF input_kind = "missing"
       THEN /\ raised' = "BadParameter"
            /\ mainpc' = "raised"
       ELSE /\ raised' = raised
            /\ mainpc' = "discover"
    /\ UNCHANGED <<files, max_workers, jobpc, jobres, jobexc, served, stored, results,
                   errors, results_lock, exit_code>>
    /\ UNCHANGED <<envVars, histVars, hashVars, mfccVars>>

\* lines 269-274: the job list and the pool size
Discover ==
    /\ mainpc = "discover"
    /\ files' = IF input_kind = "file"
                THEN SingleFileJobs(CHOOSE f \in listing : TRUE)
                ELSE DirectoryJobs(listing)
    /\ max_workers' = MaxWorkersOf(cpu_count, files')
    /\ mainpc' = "pool"
    /\ UNCHANGED <<jobpc, jobres, jobexc, served, stored, results, errors,
                   results_lock, raised, exit_code>>
    /\ UNCHANGED <<envVars, histVars, hashVars, mfccVars>>

\* lines 276-278: ThreadPoolExecutor(max_workers) raises ValueError unless
\* max_workers > 0; otherwise every job is submitted
CreatePool ==
    /\ mainpc = "pool"
    /\ IF max_workers <= 0
       THEN /\ raised' = "ValueError"
            /\ mainpc' = "raised"
            /\ UNCHANGED <<jobpc, jobres, jobexc, served, stored>>
       ELSE /\ raised' = raised
            /\ mainpc' = "wait"
            /\ jobpc'  = [j \in Jobs |-> "queued"]
            /\ jobres' = [j \in Jobs |-> EmptyDict]
            /\ jobexc' = [j \in Jobs |-> "none"]
            /\ served' = [j \in Jobs |-> "none"]
            /\ stored' = [j \in Jobs |-> "none"]
    /\ UNCHANGED <<files, max_workers, results, errors, results_lock, exit_code>>
    /\ UNCHANGED <<envVars, histVars, hashVars, mfccVars>>

\* lines 289-305 entered without the join at the end of the `with` block
PostProcessUnjoined ==
    /\ mainpc = "wait"
    /\ results' = SortByFileNumber(results)
    /\ mainpc' = "returned"
    /\ UNCHANGED <<files, max_workers, jobpc, jobres, jobexc, served, stored, errors,
                   results_lock, raised, exit_code>>
    /\ UNCHANGED <<envVars, histVars, hashVars, mfccVars>>

\* lines 276-305: leaving the `with` block joins the workers; then the
\* error summary, the sort, the output file and the return
PostProcess ==
    /\ mainpc = "wait"
    /\ \A j \in Jobs : jobpc[j] = "done"
    /\ results' = SortByFileNumber(results)
    /\ mainpc' = "returned"
    /\ UNCHANGED <<files, max_workers, jobpc, jobres, jobexc, served, stored, errors,
                   results_lock, raised, exit_code>>
    /\ UNCHANGED <<envVars, histVars, hashVars, mfccVars>>

\* main, lines 332-349: the summary and exit code 0, or Exit(code=1) for
\* any exception out of process_audio_files
MainExit ==
    /\ caller = "main"
    /\ mainpc \in {"returned", "raised"}
    /\ exit_code' = IF mainpc = "returned" THEN 0 ELSE 1
    /\ mainpc' = "exited"
    /\ UNCHANGED <<files, max_workers, jobpc, jobres, jobexc, served, stored, results,
                   errors, results_lock, raised>>
    /\ UNCHANGED <<envVars, histVars, hashVars, mfccVars>>


-----------------------------------------------------------------------------
(* process_file: one job on a pool worker.                                 *)

Path(j)       == files[j][1]
FileNumber(j) == files[j][2]

Running == {j \in Jobs : jobpc[j] \notin {"queued", "done"}}

Goto(j, pc) == jobpc' = [jobpc EXCEPT ![j] = pc]

\* an exception reaches process_file's handler (line 262)
Raise(j, msg) ==
    /\ Goto(j, "except")
    /\ jobexc' = [jobexc EXCEPT ![j] = msg]

\* caching treated as enabled whatever use_cache says
CachingForced == FALSE

\* lines 106 and 126: `if not self.use_cache: return`
CachingDisabled == ~use_cache

\* A worker takes the next work item: the queue is first in, first out, and
\* the pool never runs more than max_workers threads.
StartJob(j) ==
    /\ mainpc = "wait"
    /\ jobpc[j] = "queued"
    /\ \A i \in Jobs : i < j => jobpc[i] # "queued"
    /\ Cardinality(Running) < max_workers
    /\ Goto(j, "check_cache")
    /\ UNCHANGED <<mainpc, files, max_workers, jobres, jobexc, served, stored, results,
                   errors, results_lock, raised, exit_code>>
    /\ UNCHANGED <<envVars, histVars, hashVars, mfccVars>>

\* the cached dict returned as it was read
KeepFileNumber(cached_result, file_number) == cached_result

\* line 149: cached_result['metadata']['file_number'] = file_number
SetFileNumber(cached_result, file_number) ==
    [cached_result EXCEPT !.metadata[1].file_number = file_number]

\* calculate_audio_features lines 146-150 with check_cache (104-122).
\* `readable`: whether calculate_sha256 can open and read the file.
CheckCache(j) ==
    /\ jobpc[j] = "check_cache"
    /\ IF CachingDisabled
       THEN /\ Goto(j, "extract")
            /\ served' = [served EXCEPT ![j] = "miss"]
            /\ UNCHANGED <<jobres, jobexc, hash_calls>>
       ELSE \E readable \in BOOLEAN :
            /\ hash_calls' = hash_calls + 1
            /\ IF ~readable
               THEN /\ Raise(j, "IOError")
                    /\ UNCHANGED <<jobres, served>>
               ELSE LET file_hash  == calculate_sha256(Path(j).content)
                        cache_path == get_cache_path(Path(j), file_hash)
                        cached_result == Lookup(cache_dir[cache_path], BUILD_ID)
                    IN  IF cached_result = EmptyDict
                        THEN /\ Goto(j, "extract")
                             /\ served' = [served EXCEPT ![j] = "miss"]
                             /\ UNCHANGED <<jobres, jobexc>>
                        ELSE /\ served' = [served EXCEPT ![j] = "hit"]
                             /\ IF cached_result.metadata = <<>>
                                THEN /\ Raise(j, "KeyError")
                                     /\ UNCHANGED jobres
                                ELSE /\ Goto(j, "publish")
                                     /\ jobres' = [jobres EXCEPT ![j] =
                                          SetFileNumber(cached_result, FileNumber(j))]
                                     /\ UNCHANGED jobexc
    /\ UNCHANGED <<mainpc, files, max_workers, stored, results, errors,
                   results_lock, raised, exit_code>>
    /\ UNCHANGED <<envVars, run, extract_calls, completion, first_build,
                   first_cache, first_stored, hashVars, mfccVars>>

\* lines 152-210 and 217-220: extract_metadata (58-102: stat,
\* calculate_sha256 and the tag reader, outside the try of line 155), then
\* librosa.load and the feature calls inside the try.  `outcome`: which of
\* the two, if any, raises; "hash_raises" is calculate_sha256 (line 62)
\* failing to open or read the file.
Extract(j) ==
    /\ jobpc[j] = "extract"
    /\ hash_calls' = hash_calls + 1
    /\ \E outcome \in {"ok", "hash_raises", "metadata_raises", "features_raise"} :
         LET metadata == Metadata(Path(j), FileNumber(j), BUILD_ID)
         IN  CASE outcome = "hash_raises" ->
                    /\ Raise(j, "IOError")
                    /\ UNCHANGED <<jobres, extract_calls>>
               [] outcome = "metadata_raises" ->
                    /\ Raise(j, "MetadataError")
                    /\ UNCHANGED <<jobres, extract_calls>>
               [] outcome = "features_raise" ->
                    /\ extract_calls' = [extract_calls EXCEPT ![Path(j)] = @ + 1]
                    /\ jobres' = [jobres EXCEPT ![j] =
                                    ErrorDict(metadata, "ExtractionError")]
                    /\ Goto(j, "publish")
                    /\ UNCHANGED jobexc
               [] OTHER ->
                    /\ extract_calls' = [extract_calls EXCEPT ![Path(j)] = @ + 1]
                    /\ jobres' = [jobres EXCEPT ![j] =
                                    SuccessDict(metadata, Features(Path(j)))]
                    /\ Goto(j, "save_to_cache")
                    /\ UNCHANGED jobexc
    /\ UNCHANGED <<mainpc, files, max_workers, served, stored, results, errors,
                   results_lock, raised, exit_code>>
    /\ UNCHANGED <<envVars, run, completion, first_build, first_cache,
                   first_stored, hashVars, mfccVars>>

\* line 213, save_to_cache (124-137).  calculate_sha256 (line 129) is outside
\* save_to_cache's own try and inside the try of line 155.  `written`: "ok",
\* "open_failed" (nothing changed) or "partial" (the file opened with 'wb'
\* and the dump broken off).
SaveToCache(j) ==
    /\ jobpc[j] = "save_to_cache"
    /\ Goto(j, "publish")
    /\ IF CachingDisabled
       THEN /\ stored' = [stored EXCEPT ![j] = "skipped"]
            /\ UNCHANGED <<cache_dir, jobres, hash_calls, first_stored>>
       ELSE /\ hash_calls' = hash_calls + 1
            /\ \E readable \in BOOLEAN :
                 IF ~readable
                 THEN /\ jobres' = [jobres EXCEPT ![j] =
                                      ErrorDict(jobres[j].metadata[1], "IOError")]
                      /\ stored' = [stored EXCEPT ![j] = "unreadable"]
                      /\ UNCHANGED <<cache_dir, first_stored>>
                 ELSE LET file_hash  == calculate_sha256(Path(j).content)
                          cache_path == get_cache_path(Path(j), file_hash)
                      IN  /\ UNCHANGED jobres
                          /\ \E written \in {"ok", "open_failed", "partial"} :
                               /\ stored' = [stored EXCEPT ![j] = written]
                               /\ cache_dir' =
                                    CASE written = "ok" ->
                                           [cache_dir EXCEPT ![cache_path] = Pickle(jobres[j])]
                                      [] written = "partial" ->
                                           [cache_dir EXCEPT ![cache_path] = Corrupt]
                                      [] OTHER -> cache_dir
                               /\ first_stored' =
                                    IF written = "ok" /\ run = 1
                                    THEN first_stored \cup {Path(j)}
                                    ELSE first_stored
    /\ UNCHANGED <<mainpc, files, max_workers, jobexc, served, results, errors,
                   results_lock, raised, exit_code>>
    /\ UNCHANGED <<input_kind, listing, caller, use_cache, verbose, output,
                   cpu_count, BUILD_ID, run, extract_calls, completion,
                   first_build, first_cache, hashVars, mfccVars>>

\* the append entered without waiting for results_lock
AcquireLockUnguarded(j) ==
    /\ jobpc[j] \in {"publish", "except"}
    /\ results_lock' = j
    /\ Goto(j, IF jobpc[j] = "publish" THEN "append" ELSE "except_append")
    /\ UNCHANGED <<mainpc, files, max_workers, jobres, jobexc, served, stored, results,
                   errors, raised, exit_code>>
    /\ UNCHANGED <<envVars, histVars, hashVars, mfccVars>>

\* `with results_lock:` at line 250 and at line 265
AcquireLock(j) ==
    /\ jobpc[j] \in {"publish", "except"}
    /\ results_lock = 0
    /\ results_lock' = j
    /\ Goto(j, IF jobpc[j] = "publish" THEN "append" ELSE "except_append")
    /\ UNCHANGED <<mainpc, files, max_workers, jobres, jobexc, served, stored, results,
                   errors, raised, exit_code>>
    /\ UNCHANGED <<envVars, histVars, hashVars, mfccVars>>

\* lines 250-261: the append under the lock, the release, and then, with no
\* output file and verbose on, the echo print(json.dumps(result)), which
\* touches nothing shared.  `echoed`: the echo does not raise.
AppendResult(j) ==
    /\ jobpc[j] = "append"
    /\ IF jobres[j].error # "absent"
       THEN /\ errors' = Append(errors, <<Path(j), jobres[j].error>>)
            /\ UNCHANGED <<results, completion>>
       ELSE /\ results' = Append(results, jobres[j])
            /\ completion' = Append(completion, j)
            /\ UNCHANGED errors
    /\ results_lock' = 0
    /\ IF ~output /\ verbose
       THEN \E echoed \in BOOLEAN :
              IF echoed THEN Goto(j, "done") /\ UNCHANGED jobexc
                        ELSE Raise(j, "EchoError")
       ELSE Goto(j, "done") /\ UNCHANGED jobexc
    /\ UNCHANGED <<mainpc, files, max_workers, jobres, served, stored, raised,
                   exit_code>>
    /\ UNCHANGED <<envVars, run, extract_calls, hash_calls, first_build,
                   first_cache, first_stored, hashVars, mfccVars>>

\* the handler of process_file swallowing the exception
AppendErrorSilent(j) ==
    /\ jobpc[j] = "except_append"
    /\ errors' = errors
    /\ results_lock' = 0
    /\ Goto(j, "done")
    /\ UNCHANGED <<mainpc, files, max_workers, jobres, jobexc, served, stored, results,
                   raised, exit_code>>
    /\ UNCHANGED <<envVars, histVars, hashVars, mfccVars>>

\* the handler of process_file leaving without giving the lock back
AppendErrorKeepsLock(j) ==
    /\ jobpc[j] = "except_append"
    /\ errors' = Append(errors, <<Path(j), jobexc[j]>>)
    /\ results_lock' = results_lock
    /\ Goto(j, "done")
    /\ UNCHANGED <<mainpc, files, max_workers, jobres, jobexc, served, stored, results,
                   raised, exit_code>>
    /\ UNCHANGED <<envVars, histVars, hashVars, mfccVars>>

\* lines 262-267: the handler of process_file appends to errors under the lock
AppendError(j) ==
    /\ jobpc[j] = "except_append"
    /\ errors' = Append(errors, <<Path(j), jobexc[j]>>)
    /\ results_lock' = 0
    /\ Goto(j, "done")
    /\ UNCHANGED <<mainpc, files, max_workers, jobres, jobexc, served, stored, results,
                   raised, exit_code>>
    /\ UNCHANGED <<envVars, histVars, hashVars, mfccVars>>

Next ==
    \/ CheckInput
    \/ Discover
    \/ CreatePool
    \/ PostProcess
    \/ MainExit
    \/ \E j \in DOMAIN jobpc : StartJob(j)
    \/ \E j \in DOMAIN jobpc : CheckCache(j)
    \/ \E j \in DOMAIN jobpc : Extract(j)
    \/ \E j \in DOMAIN jobpc : SaveToCache(j)
    \/ \E j \in DOMAIN jobpc : AcquireLock(j)
    \/ \E j \in DOMAIN jobpc : AppendResult(j)
    \/ \E j \in DOMAIN jobpc : AppendError(j)

Spec == Init /\ [][Next]_vars


-----------------------------------------------------------------------------
(* Fair scheduling: the calling thread and every pool worker that can take *)
(* a step eventually takes one.  The collaborators return or raise, the    *)
(* `with results_lock:` blocks release the lock on every way out, and the  *)
(* pool hands a queued job to a worker as soon as one is free.             *)

MainStep ==
    \/ CheckInput
    \/ Discover
    \/ CreatePool
    \/ PostProcess
    \/ MainExit

JobStep(j) ==
    /\ j \in DOMAIN jobpc
    /\ \/ StartJob(j)
       \/ CheckCache(j)
       \/ Extract(j)
       \/ SaveToCache(j)
       \/ AcquireLock(j)
       \/ AppendResult(j)
       \/ AppendError(j)

Fairness ==
    /\ WF_vars(MainStep)
    /\ \A j \in 1..MaxFiles : WF_vars(JobStep(j))

\* a batch of at least one job from a directory of audio files only, its
\* results echoed (so that each way a job can raise is there), on a cache
\* directory that is empty or holds an entry of the current build id
InitFair ==
    /\ Init
    /\ input_kind = "dir"
    /\ DirectoryJobs(listing) # <<>>
    /\ Len(DirectoryJobs(listing)) = Cardinality(listing)
    /\ verbose /\ ~output
    /\ \A d \in Digests :
          cache_dir[d] # NoFile => Lookup(cache_dir[d], BUILD_ID) # EmptyDict

SpecFair == InitFair /\ [][Next]_vars /\ Fairness


-----------------------------------------------------------------------------
(* Successive runs: the program is started again on the same input with    *)
(* the same options; the cache directory persists and BUILD_ID is whatever *)
(* the environment of the new process says.                                *)

NextRun ==
    /\ mainpc = "exited"
    /\ run < MaxRuns
    /\ run' = run + 1
    /\ \E b \in BuildIds : BUILD_ID' = b
    /\ hash_calls' = 0
    /\ completion' = <<>>
    /\ mainpc' = "start"
    /\ files' = <<>>
    /\ max_workers' = 0
    /\ jobpc' = <<>>
    /\ jobres' = <<>>
    /\ jobexc' = <<>>
    /\ served' = <<>>
    /\ stored' = <<>>
    /\ results' = <<>>
    /\ errors' = <<>>
    /\ results_lock' = 0
    /\ raised' = "none"
    /\ exit_code' = -1
    /\ UNCHANGED <<input_kind, listing, caller, use_cache, verbose, output,
                   cpu_count, cache_dir, extract_calls, first_build,
                   first_cache, first_stored, hashVars, mfccVars>>

\* runs of the command on a single file
InitRuns ==
    /\ Init
    /\ input_kind = "file"

NextRuns ==
    \/ Next
    \/ NextRun

SpecRuns == InitRuns /\ [][NextRuns]_vars

-----------------------------------------------------------------------------
(* calculate_sha256 on its own: two files, any of the lengths around the   *)
(* chunk size, hashed in either order.                                     *)

HashLens == {0, 1, ChunkSize - 1, ChunkSize, ChunkSize + 1, 2 * ChunkSize}

HashContents == [len : HashLens, seed : 1..MaxSeed]

InitHash ==
    /\ \E c1 \in HashContents, s2 \in 1..MaxSeed :
         hfile = << [stem |-> 1, ext |-> "mp3",  content |-> c1],
                    [stem |-> 2, ext |-> "FLAC",
                     content |-> [len |-> c1.len, seed |-> s2]] >>
    /\ hdigest = <<NoDigest, NoDigest>>
    /\ input_kind = "file"
    /\ listing = {}
    /\ caller = "api"
    /\ use_cache = TRUE
    /\ verbose = FALSE
    /\ output = FALSE
    /\ cpu_count = 0
    /\ BUILD_ID = "b1"
    /\ cache_dir = EmptyCache
    /\ IdleRun
    /\ run = 1
    /\ extract_calls = [f \in Entries |-> 0]
    /\ hash_calls = 0
    /\ completion = <<>>
    /\ first_build = BUILD_ID
    /\ first_cache = cache_dir
    /\ first_stored = {}
    /\ IdleMfcc

\* calculate_sha256(str(file_path)) for the i-th file
HashFile(i) ==
    /\ hdigest[i] = NoDigest
    /\ hdigest' = [hdigest EXCEPT ![i] = calculate_sha256(hfile[i].content)]
    /\ UNCHANGED <<hfile, envVars, runVars, histVars, mfccVars>>

NextHash == \E i \in DOMAIN hfile : HashFile(i)

SpecHash == InitHash /\ [][NextHash]_vars


-----------------------------------------------------------------------------
(* Discovery on its own: any listing over the model's entries, up to the   *)
(* creation of the pool.                                                   *)

InitDiscover ==
    /\ input_kind \in {"file", "dir"}
    /\ listing \in
         IF input_kind = "file" THEN {{f} : f \in Entries} ELSE SUBSET Entries
    /\ caller = "main"
    /\ use_cache \in BOOLEAN
    /\ verbose = FALSE
    /\ output = FALSE
    /\ cpu_count \in 0..MaxCpu
    /\ BUILD_ID = "b1"
    /\ cache_dir = EmptyCache
    /\ IdleRun
    /\ run = 1
    /\ extract_calls = [f \in Entries |-> 0]
    /\ hash_calls = 0
    /\ completion = <<>>
    /\ first_build = BUILD_ID
    /\ first_cache = cache_dir
    /\ first_stored = {}
    /\ IdleHash
    /\ IdleMfcc

NextDiscover ==
    \/ CheckInput
    \/ Discover
    \/ CreatePool

SpecDiscover == InitDiscover /\ [][NextDiscover]_vars


-----------------------------------------------------------------------------
(* audio_mfcc/app.py: process_audio_files.  The jobs run process_and_save  *)
(* on a pool of os.cpu_count() or 4 workers; with an output file each job  *)
(* appends its result to it inside `with threading.Lock():`, and the       *)
(* calling thread collects the returned results as the futures complete.   *)

\* lines 147-150: files = [input_path], or the sorted mp3/flac entries
MfccFiles ==
    IF input_kind = "file"
    THEN <<CHOOSE f \in listing : TRUE>>
    ELSE sorted({f \in listing : SuffixSupported(f)})

InitMfcc ==
    /\ input_kind \in {"file", "dir"}
    /\ listing \in
         IF input_kind = "file"
         THEN {{f} : f \in Entries}
         ELSE {S \in SUBSET Entries : Cardinality(S) <= MaxFiles}
    /\ caller = "main"
    /\ use_cache = FALSE
    /\ verbose = FALSE
    /\ output \in BOOLEAN
    /\ cpu_count \in 0..MaxCpu
    /\ BUILD_ID = "b1"
    /\ cache_dir = EmptyCache
    /\ IdleRun
    /\ run = 1
    /\ extract_calls = [f \in Entries |-> 0]
    /\ hash_calls = 0
    /\ completion = <<>>
    /\ first_build = BUILD_ID
    /\ first_cache = cache_dir
    /\ first_stored = {}
    /\ IdleHash
    /\ IdleMfcc

MfccJobs == DOMAIN mfcc_pc

MfccRunning ==
    {j \in MfccJobs : mfcc_pc[j] \in {"calculate", "enter", "writing"}}

\* lines 117-160: the existence check (the path exists), the file list, the
\* output file truncated, the pool created and every job submitted
MfccSetup ==
    /\ mfcc_mainpc = "start"
    /\ mfcc_mainpc' = "wait"
    /\ mfcc_files' = MfccFiles
    /\ mfcc_workers' = CpuCountOrDefault(cpu_count)
    /\ mfcc_pc' = [j \in 1..Len(MfccFiles) |-> "queued"]
    /\ mfcc_lock' = [j \in 1..Len(MfccFiles) |-> "none"]
    /\ mfcc_out' = <<>>
    /\ UNCHANGED <<mfcc_results, envVars, runVars, histVars, hashVars>>

\* a worker of the pool takes the next submitted call
MfccStartJob(j) ==
    /\ mfcc_mainpc = "wait"
    /\ mfcc_pc[j] = "queued"
    /\ \A i \in MfccJobs : i < j => mfcc_pc[i] # "queued"
    /\ Cardinality(MfccRunning) < mfcc_workers
    /\ mfcc_pc' = [mfcc_pc EXCEPT ![j] = "calculate"]
    /\ UNCHANGED <<mfcc_mainpc, mfcc_files, mfcc_workers, mfcc_lock, mfcc_out,
                   mfcc_results, envVars, runVars, histVars, hashVars>>

\* lines 126-128 and 141-144: calculate_mfcc returns or raises; with no
\* output file the result is returned, on an exception None is
MfccCalculate(j) ==
    /\ mfcc_pc[j] = "calculate"
    /\ \E calculated \in BOOLEAN :
         mfcc_pc' = [mfcc_pc EXCEPT ![j] =
                       IF ~calculated THEN "failed"
                       ELSE IF output THEN "enter" ELSE "returned"]
    /\ UNCHANGED <<mfcc_mainpc, mfcc_files, mfcc_workers, mfcc_lock, mfcc_out,
                   mfcc_results, envVars, runVars, histVars, hashVars>>

\* lines 130-131: `with threading.Lock():` makes a new Lock object and
\* acquires it, which needs no other thread; then open(output, 'a').
\* `opened`: the open succeeds; if not the lock is released on the way to
\* the handler.
MfccEnterBlock(j) ==
    /\ mfcc_pc[j] = "enter"
    /\ \E opened \in BOOLEAN :
         IF opened
         THEN /\ mfcc_lock' = [mfcc_lock EXCEPT ![j] = "held"]
              /\ mfcc_pc' = [mfcc_pc EXCEPT ![j] = "writing"]
         ELSE /\ mfcc_lock' = [mfcc_lock EXCEPT ![j] = "released"]
              /\ mfcc_pc' = [mfcc_pc EXCEPT ![j] = "failed"]
    /\ UNCHANGED <<mfcc_mainpc, mfcc_files, mfcc_workers, mfcc_out,
                   mfcc_results, envVars, runVars, histVars, hashVars>>

\* lines 132-140: the separator, json.dump(result, f) and the closing
\* bracket; the file is closed and the job's lock released
MfccWriteBlock(j) ==
    /\ mfcc_pc[j] = "writing"
    /\ mfcc_out' = Append(mfcc_out, j)
    /\ mfcc_lock' = [mfcc_lock EXCEPT ![j] = "released"]
    /\ mfcc_pc' = [mfcc_pc EXCEPT ![j] = "returned"]
    /\ UNCHANGED <<mfcc_mainpc, mfcc_files, mfcc_workers, mfcc_results,
                   envVars, runVars, histVars, hashVars>>

\* lines 162-171: as_completed yields a finished future; its result, unless
\* None, is appended to results
MfccCollect(j) ==
    /\ mfcc_mainpc = "wait"
    /\ mfcc_pc[j] \in {"returned", "failed"}
    /\ mfcc_results' = IF mfcc_pc[j] = "returned"
                       THEN Append(mfcc_results, j)
                       ELSE mfcc_results
    /\ mfcc_pc' = [mfcc_pc EXCEPT ![j] = "collected"]
    /\ UNCHANGED <<mfcc_mainpc, mfcc_files, mfcc_workers, mfcc_lock, mfcc_out,
                   envVars, runVars, histVars, hashVars>>

\* lines 172-174: every future was yielded and the pool is left; return
\* results
MfccReturn ==
    /\ mfcc_mainpc = "wait"
    /\ \A j \in MfccJobs : mfcc_pc[j] = "collected"
    /\ mfcc_mainpc' = "returned"
    /\ UNCHANGED <<mfcc_files, mfcc_workers, mfcc_pc, mfcc_lock, mfcc_out,
                   mfcc_results, envVars, runVars, histVars, hashVars>>

NextMfcc ==
    \/ MfccSetup
    \/ MfccReturn
    \/ \E j \in MfccJobs : MfccStartJob(j)
    \/ \E j \in MfccJobs : MfccCalculate(j)
    \/ \E j \in MfccJobs : MfccEnterBlock(j)
    \/ \E j \in MfccJobs : MfccWriteBlock(j)
    \/ \E j \in MfccJobs : MfccCollect(j)

SpecMfcc == InitMfcc /\ [][NextMfcc]_vars


-----------------------------------------------------------------------------
(* The claims.                                                             *)

\* process_audio_files has returned its report
Finished == mainpc \in {"returned", "exited"} /\ raised = "none"

\* entries of the successes list that belong to job j
InResults(j) ==
    Cardinality({i \in 1..Len(results) :
                    results[i].metadata[1].file_number = FileNumber(j)})

\* entries of the failures list that belong to job j
InErrors(j) ==
    Cardinality({i \in 1..Len(errors) : errors[i][1] = Path(j)})

\* C1: when process_audio_files finishes, every discovered job is exactly
\* once in the successes and failures lists taken together, so that
\* len(successes) + len(failures) is the number of discovered files; this
\* for every option combination and also when the verbose echo fails.
C1_EachJobExactlyOnce ==
    Finished =>
        /\ \A j \in Jobs : InResults(j) + InErrors(j) = 1
        /\ Len(results) + Len(errors) = Len(files)

\* C2: the successes list returned is strictly ascending in file_number,
\* which is the order of the sorted file listing, whatever the order in
\* which the workers completed.
C2_SuccessesAscending ==
    Finished =>
        \A i, k \in 1..Len(results) :
            i < k =>
              LET ni == results[i].metadata[1].file_number
                  nk == results[k].metadata[1].file_number
              IN  /\ ni < nk
                  /\ ni \in Jobs /\ nk \in Jobs
                  /\ input_kind = "dir" => PathLess(Path(ni), Path(nk))

\* C2 witness: two successes were appended in the reverse of the listing
\* order and the report has been returned.
C2_Witness ==
    /\ Finished
    /\ Len(results) = 2
    /\ completion = <<2, 1>>

\* C5: an existing directory without qualifying files starts no worker,
\* raises nothing and returns the empty report.
C5_EmptyDirectoryReturnsEmpty ==
    (input_kind = "dir" /\ {f \in listing : f.ext \in {"mp3", "flac", "MP3", "FLAC"}} = {})
      => /\ raised = "none"
         /\ jobpc = <<>>
         /\ results = <<>> /\ errors = <<>>
         /\ mainpc = "exited" => exit_code = 0

\* C6: a single existing file is the one job, numbered 1, if its extension
\* is mp3 or flac, and gives no job at all otherwise.
C6_SingleFileDiscovery ==
    (input_kind = "file" /\ mainpc \notin {"start", "discover"})
      => LET f == CHOOSE g \in listing : TRUE
         IN  files = IF f.ext \in {"mp3", "flac", "MP3", "FLAC"}
                     THEN <<<<f, 1>>>>
                     ELSE <<>>

\* C7: when feature extraction raises for exactly one job and no other
\* collaborator fails, that job has exactly one entry in failures and none
\* in successes, every other job is in successes, process_audio_files
\* returns normally and main exits with code 0.
C7_FailureIsolation ==
    \A j \in DOMAIN jobpc :
        ( /\ mainpc \in {"returned", "exited", "raised"}
          /\ jobres[j].error = "ExtractionError"
          /\ \A k \in Jobs : jobexc[k] \in {"none", "EchoError"}
          /\ \A k \in Jobs \ {j} :
                jobres[k].error = "absent" /\ jobres[k].features # <<>> )
        => /\ InErrors(j) = 1
           /\ InResults(j) = 0
           /\ \A k \in Jobs \ {j} : InResults(k) = 1
           /\ raised = "none"
           /\ mainpc = "exited" => exit_code = 0

\* C8: for a directory the job list is exactly the entries whose extension
\* is mp3 or flac in any case, ascending by name, numbered 1..N without
\* gaps; other entries give no job.
C8_DirectoryDiscovery ==
    (input_kind = "dir" /\ mainpc \notin {"start", "discover"})
      => /\ {files[i][1] : i \in 1..Len(files)}
              = {f \in listing : f.ext \in {"mp3", "flac", "MP3", "FLAC"}}
         /\ Len(files)
              = Cardinality({f \in listing : f.ext \in {"mp3", "flac", "MP3", "FLAC"}})
         /\ \A i \in 1..Len(files) : files[i][2] = i
         /\ \A i, k \in 1..Len(files) :
               i < k => PathLess(files[i][1], files[k][1])

\* C8 witness: a directory holding a.flac, a.mp3, b.FLAC and c.txt has been
\* listed: three jobs, c.txt left out.
C8_Witness ==
    /\ input_kind = "dir"
    /\ listing = Entries
    /\ mainpc = "pool"
    /\ Len(files) = 3

\* C9: on a path that does not exist process_audio_files raises the
\* input-not-found error before anything else: no job, no hash, no cache
\* access, no worker, nothing appended.
C9_MissingInputFailsFirst ==
    (input_kind = "missing" /\ mainpc # "start")
      => /\ raised = "BadParameter"
         /\ mainpc = "raised"
         /\ files = <<>>
         /\ jobpc = <<>>
         /\ hash_calls = 0
         /\ \A f \in Entries : extract_calls[f] = 0
         /\ cache_dir = first_cache
         /\ results = <<>> /\ errors = <<>>

\* C9 witness: the call on a missing path has raised.
C9_Witness ==
    /\ input_kind = "missing"
    /\ mainpc = "raised"
    /\ raised = "BadParameter"


\* the cache file check_cache reads for job j
CacheFileOf(j) == cache_dir[get_cache_path(Path(j), calculate_sha256(Path(j).content))]

\* C3: with caching on, the build id unchanged and the cache empty at first,
\* two successive runs on the same file invoke extraction exactly once: the
\* first run stores its result and the second run is served from the cache.
C3_SecondRunServedFromCache ==
    ( /\ run = 2
      /\ mainpc \in {"returned", "exited"}
      /\ use_cache
      /\ BUILD_ID = first_build
      /\ first_cache = EmptyCache
      /\ listing \subseteq first_stored )
    => \A f \in listing : extract_calls[f] = 1

\* C4, as a step of check_cache: the lookup leaves the cache directory as it
\* is, answers a hit only for an entry whose build id is the current
\* BUILD_ID, and after a miss the job goes on to extraction.
C4_LookupStep ==
    \A j \in DOMAIN jobpc :
        (jobpc[j] = "check_cache" /\ jobpc'[j] # "check_cache")
          => /\ cache_dir' = cache_dir
             /\ served'[j] = "hit"
                  => /\ CacheFileOf(j).kind = "pickle"
                     /\ CacheFileOf(j).data.build_id = BUILD_ID
             /\ served'[j] = "miss" => jobpc'[j] = "extract"

\* C4, across runs: a run whose BUILD_ID differs from the build id of the
\* entry under the file's digest (the one on disk before run 1, or the one
\* run 1 stored) is never served from the cache.
C4_StaleAcrossRuns ==
    \A j \in DOMAIN jobpc :
        ( /\ served[j] # "none"
          /\ \/ /\ first_cache[calculate_sha256(Path(j).content)].kind = "pickle"
                /\ first_cache[calculate_sha256(Path(j).content)].data.build_id
                      \notin {BUILD_ID, "absent"}
                /\ first_stored = {}
             \/ /\ run = 2
                /\ Path(j) \in first_stored
                /\ BUILD_ID # first_build )
        => served[j] = "miss"

\* C4: check_cache returns an entry only if the entry's build id equals the
\* current BUILD_ID; an entry of another build id is treated as absent, so a
\* changed build id gives a miss and extraction again; the lookup neither
\* deletes nor overwrites the stale entry.
C4_LookupValidatesBuildId == [][C4_LookupStep]_vars /\ []C4_StaleAcrossRuns

\* C4 witness: the entry was valid for run 1, run 2 runs under another
\* BUILD_ID, misses, has extracted again, and the stale entry is still on
\* disk as it was.
C4_Witness ==
    /\ run = 2
    /\ BUILD_ID = "b2"
    /\ jobpc = <<"save_to_cache">>
    /\ served = <<"miss">>
    /\ first_cache[calculate_sha256(Path(1).content)].kind = "pickle"
    /\ first_cache[calculate_sha256(Path(1).content)].data.build_id = "b1"
    /\ cache_dir = first_cache
    /\ extract_calls[Path(1)] = 1

\* C10: calculate_sha256, reading 4096-byte chunks, returns the digest of
\* the whole content hashed in one piece, for every file length; files of
\* identical bytes and different names get the same digest and cache path.
C10_ChunkedDigestIsWholeDigest ==
    /\ \A i \in DOMAIN hdigest :
          hdigest[i] # NoDigest => hdigest[i] = expected_hash(hfile[i].content)
    /\ \A i, k \in DOMAIN hdigest :
          ( /\ hdigest[i] # NoDigest /\ hdigest[k] # NoDigest
            /\ Bytes(hfile[i].content) = Bytes(hfile[k].content) )
          => /\ hdigest[i] = hdigest[k]
             /\ get_cache_path(hfile[i], hdigest[i]) = get_cache_path(hfile[k], hdigest[k])

\* C10 witness: two files of different names and the same bytes, one byte
\* longer than a chunk, have both been hashed.
C10_Witness ==
    /\ Len(hfile) = 2
    /\ Name(hfile[1]) # Name(hfile[2])
    /\ hfile[1].content = hfile[2].content
    /\ hfile[1].content.len = ChunkSize + 1
    /\ hdigest[1] # NoDigest /\ hdigest[2] # NoDigest

\* the cache files that exist
CacheEntries == {d \in Digests : cache_dir[d] # NoFile}

\* one save_to_cache call that returns without a write error
C11_StoreStep ==
    \A j \in DOMAIN jobpc :
        ( /\ jobpc[j] = "save_to_cache"
          /\ j \in DOMAIN stored'
          /\ stored'[j] = "ok" )
        => LET digest == expected_hash(Path(j).content)
           IN  /\ use_cache
               /\ cache_dir'[digest].kind = "pickle"
               /\ cache_dir'[digest].data = jobres[j]
               /\ \A d \in Digests \ {digest} : cache_dir'[d] = cache_dir[d]
               /\ CacheEntries' = CacheEntries \cup {digest}

\* C11: with caching enabled, after save_to_cache(path, result) returns
\* without a write error the cache directory holds, under the hex digest of
\* the file's content, an entry whose deserialised payload equals the stored
\* result, whatever build id the result carries; a store touches no other
\* digest's file, so any sequence of stores leaves at most one entry per
\* digest.
C11_StoreKeepsResultUnderDigest == [][C11_StoreStep]_vars

\* C11 witness: run 2 under build id b2 has stored its result over the entry
\* that run 1 wrote under b1: one file, holding the result of run 2.
C11_Witness ==
    /\ run = 2
    /\ use_cache
    /\ first_build = "b1" /\ BUILD_ID = "b2"
    /\ first_stored # {}
    /\ jobpc = <<"publish">>
    /\ stored = <<"ok">>
    /\ jobres[1].metadata[1].build_id = "b2"
    /\ cache_dir[expected_hash(Path(1).content)] =
          [kind |-> "pickle", data |-> jobres[1]]
    /\ CacheEntries = {expected_hash(Path(1).content)}

\* jobs whose calculate_audio_features call is past extract_metadata
PastExtract == {j \in DOMAIN jobpc : jobpc[j] \notin {"queued", "check_cache", "extract"}}

\* C12: with use_cache false check_cache returns no entry and save_to_cache
\* writes nothing: whatever the jobs and whatever the cache directory held
\* at the start, the directory is as it was, no job is served from it or
\* stores into it, and every job goes through extraction (the only caller of
\* calculate_sha256 is then extract_metadata, once per job).
C12_DisabledCacheIsUntouched ==
    ~use_cache =>
        /\ cache_dir = first_cache
        /\ \A j \in DOMAIN jobpc :
              /\ served[j] # "hit"
              /\ stored[j] \in {"none", "skipped"}
        /\ hash_calls = Cardinality(PastExtract)

\* C12 witness: caching is off, the directory holds an entry that a lookup
\* under the current build id would return for both jobs; both jobs were
\* extracted and returned, and the directory is unchanged.
C12_Witness ==
    /\ ~use_cache
    /\ Finished
    /\ Len(files) = 2
    /\ \A j \in Jobs :
          /\ Lookup(first_cache[expected_hash(Path(j).content)], BUILD_ID) # EmptyDict
          /\ extract_calls[Path(j)] = 1
          /\ stored[j] = "skipped"
    /\ Len(results) = 2
    /\ cache_dir = first_cache

\* jobs whose check_cache call has ended
PastCheck == {j \in DOMAIN jobpc : jobpc[j] \notin {"queued", "check_cache"}}

\* jobs whose extract_metadata call has ended
PastMetadata == {j \in DOMAIN jobpc : served[j] = "miss" /\ jobpc[j] # "extract"}

\* jobs whose save_to_cache call went past its use_cache test
PastStore == {j \in DOMAIN jobpc : stored[j] \notin {"none", "skipped"}}

\* the step in which check_cache returns a hit
C13_HitStep ==
    \A j \in DOMAIN jobpc :
        ( /\ jobpc[j] = "check_cache"
          /\ j \in DOMAIN served'
          /\ served'[j] = "hit" )
        => LET entry == cache_dir[expected_hash(Path(j).content)].data
           IN  /\ jobpc'[j] = "publish"
               /\ jobres'[j].error = "absent"
               /\ jobres'[j].features = entry.features
               /\ jobres'[j].metadata[1].file_number = FileNumber(j)
               /\ jobres'[j].metadata[1] =
                     [entry.metadata[1] EXCEPT !.file_number = FileNumber(j)]
               /\ extract_calls' = extract_calls
               /\ cache_dir' = cache_dir

\* a job that was a hit never reaches extraction or the store
C13_HitSkipsExtraction ==
    /\ \A j \in DOMAIN jobpc :
          served[j] = "hit"
          => /\ jobpc[j] \notin {"extract", "save_to_cache"}
             /\ stored[j] = "none"
             /\ extract_calls[Path(j)] = 0
    /\ use_cache =>
          hash_calls = Cardinality(PastCheck) + Cardinality(PastMetadata)
                         + Cardinality(PastStore)

\* C13: whenever check_cache returns a hit, calculate_audio_features calls
\* neither extract_metadata nor the feature extraction and does not store;
\* the result it returns carries the cached metadata and features with
\* file_number set to this job's number, not the one in the entry.
C13_HitReturnsCachedEntry == [][C13_HitStep]_vars /\ []C13_HitSkipsExtraction

\* C13 witness: both jobs of a directory were hits on one entry that holds
\* file_number 9; they returned with file_number 1 and 2, nothing was
\* extracted and the directory is as it was.
C13_Witness ==
    /\ Finished
    /\ Len(files) = 2
    /\ served = <<"hit", "hit">>
    /\ \A j \in Jobs :
          first_cache[expected_hash(Path(j).content)].data.metadata[1].file_number = 9
    /\ Len(results) = 2
    /\ results[1].metadata[1].file_number = 1
    /\ results[2].metadata[1].file_number = 2
    /\ \A f \in Entries : extract_calls[f] = 0
    /\ hash_calls = 2
    /\ cache_dir = first_cache

Max(a, b) == IF a > b THEN a ELSE b

\* C14: for every job count N >= 0 the pool size process_audio_files uses
\* is max(1, min(availableParallelism, N)), and never more jobs execute at
\* once than that size.
C14_PoolSizeAtLeastOne ==
    (mainpc \notin {"start", "discover"} /\ raised # "BadParameter")
      => /\ max_workers = Max(1, Min(CpuCountOrDefault(cpu_count), Len(files)))
         /\ Cardinality({j \in DOMAIN jobpc : jobpc[j] \notin {"queued", "done"}})
               <= max_workers

\* every submitted job is in its terminal state
AllJobsTerminal == \A j \in DOMAIN jobpc : jobpc[j] = "done"

\* from the sort on, the two lists receive nothing
C15_NoAppendAfterSort ==
    /\ (mainpc = "wait" /\ mainpc' = "returned")
          => /\ AllJobsTerminal
             /\ errors' = errors
             /\ Len(results') = Len(results)
    /\ mainpc \in {"returned", "exited"}
          => /\ results' = results
             /\ errors' = errors
             /\ jobpc' = jobpc

\* the report exists only when all jobs are terminal
C15_ReportAfterJoin ==
    mainpc \in {"returned", "exited"} /\ raised = "none" => AllJobsTerminal

\* C15: the sort of the successes, the error summary and the return or
\* write of the report happen only after every submitted job is terminal
\* (Done or Failed); no job appends to successes or failures once the sort
\* has started, so no job is abandoned.
C15_PostProcessingAfterAllJobs ==
    [][C15_NoAppendAfterSort]_vars /\ []C15_ReportAfterJoin

\* C15 witness: the report of two jobs, one a success and one a failure,
\* both terminal before the return.
C15_Witness ==
    /\ mainpc = "returned"
    /\ jobpc = <<"done", "done">>
    /\ Len(results) = 1
    /\ Len(errors) = 1

\* the positions of a process_file call in the order the code visits them
Rank(pc) ==
    CASE pc = "queued"        -> 0
      [] pc = "check_cache"   -> 1
      [] pc = "extract"       -> 2
      [] pc = "save_to_cache" -> 3
      [] pc = "publish"       -> 4
      [] pc = "append"        -> 5
      [] pc = "except"        -> 6
      [] pc = "except_append" -> 7
      [] pc = "done"          -> 8

\* the job's outcome as the two lists record it
JobDone(j)   == InResults(j) > 0
JobFailed(j) == InErrors(j) > 0

\* a job never goes back to a position it has left, and a recorded outcome
\* stays the job's only outcome
C16_JobStep ==
    \A j \in DOMAIN jobpc :
        j \in DOMAIN jobpc'
        => /\ Rank(jobpc'[j]) >= Rank(jobpc[j])
           /\ JobDone(j)   => (JobDone(j)' /\ ~JobFailed(j)')
           /\ JobFailed(j) => (JobFailed(j)' /\ ~JobDone(j)')

\* librosa.load runs at most once per file, and a terminal job has one outcome
C16_AtMostOneExecution ==
    /\ \A f \in Entries : extract_calls[f] <= 1
    /\ \A j \in DOMAIN jobpc :
          jobpc[j] = "done" => (JobDone(j) \/ JobFailed(j))

\* C16: each job is taken by one worker and executed exactly once: Done and
\* Failed are terminal, no job is queued again, and a job that failed in
\* hashing, metadata or feature extraction is not retried within the batch.
C16_ExecutedOnceTerminalOutcome ==
    [][C16_JobStep]_vars /\ []C16_AtMostOneExecution

Range(seq) == {seq[i] : i \in 1..Len(seq)}

\* calculate_sha256 could not open or read the job's file, at the cache
\* check or in extract_metadata
HashFailed(j) == jobexc[j] = "IOError"

\* C17: a hash failure is a job failure: if calculate_sha256 cannot open or
\* read a job's file (at the cache check, or in extract_metadata when
\* caching is off), the job ends as exactly one entry of failures and none
\* of successes, the batch is not aborted, and the sibling jobs finish with
\* their own results.
C17_HashFailureIsJobFailure ==
    \A j \in DOMAIN jobpc :
        HashFailed(j)
        => /\ raised = "none"
           /\ mainpc \in {"wait", "returned", "exited"}
           /\ mainpc = "exited" => exit_code = 0
           /\ InResults(j) = 0
           /\ InErrors(j) = IF jobpc[j] = "done" THEN 1 ELSE 0
           /\ jobpc[j] = "done" => <<Path(j), "IOError">> \in Range(errors)
           /\ Finished =>
                 \A k \in DOMAIN jobpc :
                    /\ jobpc[k] = "done"
                    /\ InResults(k) + InErrors(k) >= 1

\* C17 witness: the first of two jobs could not be hashed at the cache
\* check; it is the one failure, and its sibling, started after it, is the
\* one success of the returned report.
C17_Witness ==
    /\ Finished
    /\ use_cache
    /\ Len(files) = 2
    /\ HashFailed(1)
    /\ served[1] = "none"
    /\ errors = <<<<Path(1), "IOError">>>>
    /\ Len(results) = 1
    /\ results[1].metadata[1].file_number = 2

\* save_to_cache was called for the job (so metadata and features were
\* extracted) and failed: at its hash, at the open or during the dump
StoreFailed(j) == stored[j] \in {"unreadable", "open_failed", "partial"}

\* C18: the cache store is best-effort: a failure inside save_to_cache does
\* not change the job's outcome; the job, whose metadata and features were
\* extracted, is published as a success with its features and is not
\* recorded in failures.
C18_StoreFailureKeepsSuccess ==
    \A j \in DOMAIN jobpc :
        StoreFailed(j)
        => /\ jobres[j].error = "absent"
           /\ jobres[j].features = <<Features(Path(j))>>
           /\ jobpc[j] = "done" => (InResults(j) = 1 /\ InErrors(j) = 0)

\* the check_cache call of a job whose cache file is absent or cannot be
\* deserialised: unless the audio file itself cannot be hashed, a miss and
\* on to extraction, with nothing raised and the cache file left alone
C19_MissStep ==
    \A j \in DOMAIN jobpc :
        ( /\ jobpc[j] = "check_cache"
          /\ j \in DOMAIN jobpc'
          /\ jobpc'[j] # "check_cache"
          /\ use_cache
          /\ cache_dir[expected_hash(Path(j).content)].kind \in {"nofile", "corrupt"} )
        => /\ served'[j] # "hit"
           /\ jobexc'[j] \in {"none", "IOError"}
           /\ jobexc'[j] = "none"
                 => (jobpc'[j] = "extract" /\ served'[j] = "miss")
           /\ jobexc'[j] = "IOError"
                 => (jobpc'[j] = "except" /\ served'[j] = "none")
           /\ cache_dir' = cache_dir

\* C19: the cache lookup never fails a job: an absent cache file and one
\* that cannot be read or deserialised (a truncated or partially written
\* one included) both make check_cache return a miss, after which the job
\* goes on to extraction and can still end as a success.
C19_UnreadableEntryIsMiss == [][C19_MissStep]_vars

\* C19 witness: the cache file of the job's digest was garbage at the start;
\* the job missed, was extracted, replaced the file by its result and is the
\* success of the returned report.
C19_Witness ==
    /\ Finished
    /\ use_cache
    /\ Len(files) = 1
    /\ first_cache[expected_hash(Path(1).content)] = Corrupt
    /\ served = <<"miss">>
    /\ jobexc = <<"none">>
    /\ stored = <<"ok">>
    /\ results = <<jobres[1]>>
    /\ errors = <<>>
    /\ cache_dir[expected_hash(Path(1).content)].kind = "pickle"

\* the report of the batch is out: every job terminal, the lock free
BatchComplete ==
    /\ Finished
    /\ jobpc # <<>>
    /\ AllJobsTerminal
    /\ \A j \in DOMAIN jobpc : InResults(j) + InErrors(j) >= 1
    /\ results_lock = 0
    /\ caller = "main" => mainpc = "exited"

\* C20: every batch with at least one job terminates: under fair scheduling
\* of the workers, with collaborators that return or raise, every job
\* eventually is Done or Failed and process_audio_files eventually returns
\* its report; a job that raises blocks neither the pool nor the lock.
C20_BatchTerminates == <>[]BatchComplete

\* C20 witness: the report of a batch of two in which the first job raised
\* (its file could not be hashed) and the second, started after it on the
\* one worker, took the lock after it and succeeded.
C20_Witness ==
    /\ BatchComplete
    /\ Len(files) = 2
    /\ max_workers = 1
    /\ jobexc[1] # "none"
    /\ InErrors(1) = 1
    /\ InResults(2) = 1

\* jobs inside one of the two `with results_lock:` blocks
Appending == {j \in DOMAIN jobpc : jobpc[j] \in {"append", "except_append"}}

\* jobs at the entry of one of the two blocks
WaitingForLock == {j \in DOMAIN jobpc : jobpc[j] \in {"publish", "except"}}

\* at most one job is inside a block, and it is the holder of the lock
C21_OneAppender ==
    /\ Cardinality(Appending) <= 1
    /\ \A j \in DOMAIN jobpc : j \in Appending <=> results_lock = j
    /\ Appending = {} => results_lock = 0

\* the two lists grow only by a step of the job that holds the lock
C21_AppendUnderLock ==
    (Len(results') # Len(results) \/ errors' # errors)
      => \E j \in Appending :
            /\ results_lock = j
            /\ results_lock' = 0
            /\ jobpc'[j] \notin {"append", "except_append"}
            /\ Len(results') + Len(errors') = Len(results) + Len(errors) + 1

\* a job leaves the entry of a block only by taking the free lock
C21_EnterByAcquire ==
    \A j \in WaitingForLock :
        jobpc'[j] # jobpc[j]
        => /\ results_lock = 0
           /\ results_lock' = j
           /\ j \in Appending'

\* C21: every append to the successes and to the failures list happens
\* inside the one results_lock: never are two workers appending at once,
\* and the lock is released on every way out of the block (return and
\* exception), so that a worker waiting for it gets it.
C21_AppendsUnderOneLock ==
    /\ []C21_OneAppender
    /\ [][C21_AppendUnderLock /\ C21_EnterByAcquire]_vars
    /\ <>[](WaitingForLock = {} /\ results_lock = 0)

\* C21 witness: two workers run at once; the first holds the lock for its
\* failure entry after its echo raised, the second waits at the entry of
\* the block with its success.
C21_Witness ==
    /\ max_workers = 2
    /\ jobpc = <<"except_append", "publish">>
    /\ results_lock = 1
    /\ jobexc[1] = "EchoError"
    /\ Len(results) = 1

\* C22: when two jobs of one batch have byte-identical content (one digest,
\* two file names) and both miss the cache, the payloads they write to the
\* shared cache entry are identical, so that the entry's final content does
\* not depend on whose write lands last.
C22_SameContentSamePayload ==
    \A i, k \in DOMAIN jobpc :
        ( /\ i # k
          /\ Bytes(Path(i).content) = Bytes(Path(k).content)
          /\ served[i] = "miss" /\ served[k] = "miss"
          /\ stored[i] = "ok" /\ stored[k] = "ok" )
        => jobres[i] = jobres[k]

\* the jobs inside the block of process_and_save that opens the output file
\* and appends a result
MfccWriting == {j \in MfccJobs : mfcc_pc[j] = "writing"}

\* C23: in audio_mfcc's process_audio_files the writing of the results to
\* the output file is thread-safe: the block of process_and_save that opens
\* the output file and appends a result is executed by at most one worker
\* at a time, in every interleaving of the pool's workers.
C23_OneWriterOfOutput == Cardinality(MfccWriting) <= 1

\* C24: whatever the cache held at the start and whatever the batch, every
\* success of the report describes its own job's file: its metadata
\* filename is the name of the job's source file, also when the result was
\* served from a cache entry written for another file of the same bytes.
C24_SuccessNamesItsOwnFile ==
    \A i \in 1..Len(results) :
        LET n == results[i].metadata[1].file_number
        IN  /\ n \in 1..Len(files)
            /\ results[i].metadata[1].filename = Name(files[n][1])

=============================================================================
